---- MODULE Spec2Model ----
(***************************************************************************)
(* Rate cache and conversion engine of the currency converter:             *)
(*   src/src/currency_api.rs      CurrencyApiClient (upstream fetch+merge) *)
(*   src/src/currency_convert.rs  CurrencyConverter (cache, conversion)    *)
(*                                                                         *)
(* Time is the monotonic clock (std::time::Instant) counted in ticks of    *)
(* 1/TicksPerSec second, so that Duration::as_secs (whole seconds,         *)
(* truncating) is distinguishable from the real elapsed time.              *)
(*                                                                         *)
(* Rates are f64.  The providers' rates are drawn from integer-valued      *)
(* doubles (small naturals, exactly representable); the results of the     *)
(* two f64 operations of convert_currency (1.0 / x and y * z) are computed *)
(* bit-exactly in IEEE-754 binary64, round-to-nearest-even, on a 53-bit    *)
(* significand kept as a sequence of bits.                                 *)
(***************************************************************************)
EXTENDS Integers, Sequences, FiniteSets, TLC

(***************************************************************************)
(* Bounds of the model.                                                    *)
(***************************************************************************)
\* number of concurrent request tasks
NumCallers == 2
\* number of calls the tasks make in all
MaxCalls == 3
\* number of steps the clock may take
MaxAdvance == 3
\* clock ticks per second
TicksPerSec == 2

(***************************************************************************)
(* Program constants.                                                      *)
(***************************************************************************)
\* currency_convert.rs:12  const MAX_CACHE_TIME_SECS: u64 = 5 * 60;
MAX_CACHE_TIME_SECS == 300
\* width of the f64 significand (std f64::MANTISSA_DIGITS), used by `/` and `*`
MANTISSA_DIGITS == 53

(***************************************************************************)
(* IEEE-754 binary64 values.  A finite non-zero value is m * 2^e with m a  *)
(* MANTISSA_DIGITS-bit sequence, most significant bit first, m[1] = 1.     *)
(* Only non-negative values occur (rates are drawn from naturals).         *)
(***************************************************************************)
F64Nan == [k |-> "nan", m |-> <<>>, e |-> 0]
F64Inf == [k |-> "inf", m |-> <<>>, e |-> 0]
F64Zero == [k |-> "zero", m |-> <<>>, e |-> 0]
F64Fin(m, e) == [k |-> "fin", m |-> m, e |-> e]

RECURSIVE Bits(_)
\* binary expansion of a natural, most significant bit first (<<>> for 0)
Bits(n) == IF n = 0 THEN <<>> ELSE Append(Bits(n \div 2), n % 2)

RECURSIVE BitsToNat(_)
\* value of a short bit sequence (at most LimbBits bits)
BitsToNat(bits) ==
    IF bits = <<>> THEN 0
    ELSE 2 * BitsToNat(SubSeq(bits, 1, Len(bits) - 1)) + bits[Len(bits)]

Zeros(n) == [i \in 1..n |-> 0]

\* Long integers are sequences of limbs, most significant first, in base
\* 2^LimbBits; every intermediate product or remainder stays below 2^31.
LimbBits == 16

\* the limbs of a bit sequence (padded with leading zeros to whole limbs)
Limbs(bits) ==
    LET k == (Len(bits) + LimbBits - 1) \div LimbBits
        padded == Zeros(k * LimbBits - Len(bits)) \o bits
    IN [j \in 1..k |->
          BitsToNat(SubSeq(padded, LimbBits * (j - 1) + 1, LimbBits * j))]

Pow2(n) == BitsToNat(<<1>> \o Zeros(n))
LimbBase == Pow2(LimbBits)

\* the bits of a limb sequence, leading zeros removed
LimbsToBits(limbs) ==
    LET all == [i \in 1..(LimbBits * Len(limbs)) |->
                   (limbs[((i - 1) \div LimbBits) + 1]
                       \div Pow2(LimbBits - 1 - ((i - 1) % LimbBits))) % 2]
        ones == {i \in 1..Len(all) : all[i] = 1}
    IN IF ones = {} THEN <<>>
       ELSE SubSeq(all, CHOOSE i \in ones : \A j \in ones : i <= j, Len(all))

\* bits + 1 for a bit sequence that is not all ones
Increment(bits) ==
    LET zs == {i \in 1..Len(bits) : bits[i] = 0}
        last == CHOOSE i \in zs : \A j \in zs : j <= i
    IN [i \in 1..Len(bits) |->
          IF i < last THEN bits[i] ELSE IF i = last THEN 1 ELSE 0]

\* Round the exact value (bits + fraction) * 2^e to binary64, ties to even.
\* bits has a leading 1; sticky says that a non-zero fraction below the last
\* bit was dropped already.
RoundNearestEven(bits, sticky, e) ==
    LET n == Len(bits)
        P == MANTISSA_DIGITS
    IN IF n <= P
       THEN F64Fin(bits \o Zeros(P - n), e - (P - n))
       ELSE LET kept == SubSeq(bits, 1, P)
                guard == bits[P + 1]
                rest == sticky \/ \E i \in (P + 2)..n : bits[i] = 1
                up == guard = 1 /\ (rest \/ kept[P] = 1)
            IN IF ~up THEN F64Fin(kept, e + (n - P))
               ELSE IF \E i \in 1..P : kept[i] = 0
                    THEN F64Fin(Increment(kept), e + (n - P))
                    ELSE F64Fin(<<1>> \o Zeros(P - 1), e + (n - P) + 1)

RECURSIVE DivLimbs(_, _, _, _)
\* long division of the limb sequence num by the natural d < 2^14, from
\* limb i on, with running remainder r: <<quotient limbs, final remainder>>
DivLimbs(num, d, i, r) ==
    IF i > Len(num) THEN <<<<>>, r>>
    ELSE LET cur == LimbBase * r + num[i]
             tail == DivLimbs(num, d, i + 1, cur % d)
         IN <<(<<cur \div d>>) \o tail[1], tail[2]>>

RECURSIVE MulLimbs(_, _, _, _)
\* limbs * t for a natural t < 2^14, from the least significant limb i
\* down, with carry c
MulLimbs(limbs, t, i, c) ==
    IF i = 0 THEN <<c>>
    ELSE LET cur == limbs[i] * t + c
         IN Append(MulLimbs(limbs, t, i - 1, cur \div LimbBase), cur % LimbBase)

\* f64 of a natural (exact: the naturals of the model are far below 2^53)
F64OfNat(n) == IF n = 0 THEN F64Zero ELSE RoundNearestEven(Bits(n), FALSE, 0)

\* 1f64 / x for x = n, a natural-valued double: +inf for 0.0, else the
\* correctly rounded quotient of 2^80 / n, scaled by 2^-80
F64Recip(n) ==
    IF n = 0 THEN F64Inf
    ELSE LET dv == DivLimbs(<<1, 0, 0, 0, 0, 0>>, n, 1, 0)
         IN RoundNearestEven(LimbsToBits(dv[1]), dv[2] # 0, 0 - 5 * LimbBits)

\* x * y for a double x and y = t, a natural-valued double
F64MulNat(x, t) ==
    CASE x.k = "nan" -> F64Nan
      [] x.k = "inf" -> IF t = 0 THEN F64Nan ELSE F64Inf
      [] x.k = "zero" -> F64Zero
      [] OTHER -> IF t = 0 THEN F64Zero
                  ELSE LET lm == Limbs(x.m)
                       IN RoundNearestEven(
                              LimbsToBits(MulLimbs(lm, t, Len(lm), 0)), FALSE, x.e)

F64One == F64OfNat(1)

(***************************************************************************)
(* Values.  Option<T> is a sequence of length at most one; Result<T, E> is *)
(* a record.                                                               *)
(***************************************************************************)
None == <<>>
Some(v) == <<v>>
Ok(v) == [ok |-> TRUE, val |-> v]
Err(e) == [ok |-> FALSE, val |-> e]

Callers == 1..NumCallers
\* a snapshot is replaced only after the clock has moved
Episodes == 0..MaxAdvance

\* length of the cache time in clock ticks
TTLTicks == MAX_CACHE_TIME_SECS * TicksPerSec

\* the supported-currency table (keys of supported_currencies.json)
currency_names == {"USD", "EUR", "TRY"}

\* str::to_uppercase on the spellings of the model (main.rs:201 uses it,
\* convert_currency does not)
to_uppercase(code) ==
    CASE code = "usd" -> "USD"
      [] code = "eur" -> "EUR"
      [] OTHER -> code

\* currency codes a caller may pass; "ZZZ" is in no table and in no reply,
\* "usd" and "eur" are lower-case spellings
WideCodes == {"USD", "EUR", "TRY", "ZZZ", "usd", "eur"}
WideArgs == WideCodes \X WideCodes
\* the arguments of the concurrent callers
CallArgs == {<<"EUR", "USD">>}
\* the target lists of convert_currencies: empty, one target, two targets,
\* an unresolvable target first or last
ManyTargets == {<<>>, <<"EUR">>, <<"EUR", "USD">>, <<"ZZZ", "USD">>,
                <<"USD", "ZZZ">>}

\* the path parameter of the HTTP routes: a supported code in two
\* spellings and a code that is in no table
HttpCodes == {"USD", "eur", "ZZZ"}
\* the keys the per-currency cache can be asked for
HttpKeys == {to_uppercase(c) : c \in HttpCodes}
\* the target lists of /status/:base_currency/:target_currencies
HttpTargets == {<<"EUR", "USD">>, <<"usd">>, <<"ZZZ">>}
\* axum's StatusCode::OK and StatusCode::NO_CONTENT
StatusOK == 200
StatusNoContent == 204
\* the client-error statuses
ClientErrors == 400..499

\* what fetch_currency_info can end in: an error, or a response with the
\* time of the rates and the rates of the base currency
ApiReplies ==
    {Err("fetch_currency_info failed"),
     Ok([updated |-> "12:00", rates |-> ("EUR" :> 2) @@ ("USD" :> 1)]),
     Ok([updated |-> "12:05", rates |-> ("TRY" :> 49)])}

\* rates a provider may report: integer-valued doubles, unvalidated
WideRateValues == {0, 2, 49}
PartialMaps(keys, vals) == UNION {[d -> vals] : d \in SUBSET keys}
WideRates == PartialMaps({"USD", "EUR", "TRY"}, WideRateValues)
FastForexRates == {("EUR" :> 49) @@ ("USD" :> 1), ("EUR" :> 2)}
XeRates == {("EUR" :> 3) @@ ("TRY" :> 0)}

\* every rate value of the model, with ONE_USD_RATE's 1.0
RateValues ==
    {1} \cup WideRateValues
        \cup UNION {{m[c] : c \in DOMAIN m} : m \in FastForexRates \cup XeRates}

\* (1f64 / s) * t, computed once for the rate values of the model
F64CrossRate == [s \in RateValues |-> [t \in RateValues |->
                    F64MulNat(F64Recip(s), t)]]

\* what one provider request can end in: the transport fails (send() is
\* Err), the body does not decode (json() is Err), or a rates mapping
Replies(failures, rates) ==
    {[kind |-> f, rates |-> <<>>] : f \in failures}
        \cup {[kind |-> "ok", rates |-> m] : m \in rates}
FastForexReplies == Replies({"send"}, FastForexRates)
XeReplies == Replies({"send"}, XeRates)
WideReplies == Replies({"send", "decode"}, WideRates)

VARIABLES
    now,                \* monotonic clock, in ticks
    fetched_currencies, \* Option<CurrencyInfo>: the cache slot
    readers,            \* callers holding a read guard of the RwLock
    writer,             \* caller holding the write guard, 0 if none
    waiters,            \* callers queued on the RwLock, first come first
    pc,                 \* where each caller is
    base_currency,      \* arguments of each caller's convert_currency
    target_currency,
    fastforex_info,     \* fetch_currencies' locals: Option<Result<rates>>
    xe_info,
    current_info,       \* what get_base_currency_info returned: Option<Result>
    result,             \* what convert_currency returned: Option<Result>
    target_currencies,  \* convert_currencies: the targets not yet taken
    results,            \* convert_currencies: its Vec `result`
    many_result,        \* what convert_currencies returned: Option<Result>
    requested,          \* history: Some(targets) that convert_currencies
                        \*   was called with; None outside such a call
    started,            \* history: convert_currency calls it has made
    used_infos,         \* history: the snapshot behind each of `results`
    currency_info_cache, \* main.rs: moka Cache<String, CurrencyApiResponse>
    http_pc,            \* main.rs: where each request handler is
    http_handler,       \* main.rs: the route a request came in on
    http_currency,      \* main.rs: its base_currency path parameter
    http_targets,       \* main.rs: its target_currencies
    http_info,          \* main.rs: what get_currency_info returned
    http_response,      \* main.rs: the handler's response
    http_calls,         \* number of requests handled so far
    cache_reads,        \* history: the request's reads of the cache
    api_fetches,        \* history: the request's upstream fetches
    calls,              \* number of calls made so far
    stores,             \* history: number of snapshots stored so far; the
                        \*   time from store e to the next is episode e
    ep_log,             \* history: per episode, the fetch_currencies calls
                        \*   invoked and those of them that failed
    start_ep,           \* history: stores at the call, if the slot was then
                        \*   empty or expired; -1 otherwise
    fetch_ep            \* history: stores when the call invoked
                        \*   fetch_currencies; -1 if it did not

\* the state of the HTTP layer of main.rs
http == <<currency_info_cache, http_pc, http_handler, http_currency,
          http_targets, http_info, http_response, http_calls, cache_reads,
          api_fetches>>

\* the state of the converter of currency_convert.rs and its callers
core == <<now, fetched_currencies, readers, writer, waiters, pc,
          base_currency, target_currency, fastforex_info, xe_info,
          current_info, result, calls, stores, ep_log, start_ep, fetch_ep,
          target_currencies, results, many_result, requested, started,
          used_infos>>

vars == <<http, core>>

lock == <<readers, writer, waiters>>
\* the frame of convert_currencies
many == <<target_currencies, results, many_result, requested, started,
          used_infos>>
\* what the callers of get_base_currency_info hold
args == <<base_currency, target_currency, many>>
locals == <<fastforex_info, xe_info>>
history == <<calls, stores, ep_log, start_ep, fetch_ep>>

Init ==
    /\ now = 0
    /\ fetched_currencies = None
    /\ readers = {}
    /\ writer = 0
    /\ waiters = <<>>
    /\ pc = [p \in Callers |-> "idle"]
    /\ base_currency = [p \in Callers |-> ""]
    /\ target_currency = [p \in Callers |-> ""]
    /\ fastforex_info = [p \in Callers |-> None]
    /\ xe_info = [p \in Callers |-> None]
    /\ current_info = [p \in Callers |-> None]
    /\ result = [p \in Callers |-> None]
    /\ currency_info_cache = [k \in HttpKeys |-> None]
    /\ http_pc = [h \in Callers |-> "idle"]
    /\ http_handler = [h \in Callers |-> ""]
    /\ http_currency = [h \in Callers |-> ""]
    /\ http_targets = [h \in Callers |-> <<>>]
    /\ http_info = [h \in Callers |-> None]
    /\ http_response = [h \in Callers |-> None]
    /\ http_calls = 0
    /\ cache_reads = [h \in Callers |-> 0]
    /\ api_fetches = [h \in Callers |-> 0]
    /\ target_currencies = [p \in Callers |-> <<>>]
    /\ results = [p \in Callers |-> <<>>]
    /\ many_result = [p \in Callers |-> None]
    /\ requested = [p \in Callers |-> None]
    /\ started = [p \in Callers |-> 0]
    /\ used_infos = [p \in Callers |-> <<>>]
    /\ calls = 0
    /\ stores = 0
    /\ ep_log = [e \in Episodes |-> [fetches |-> 0, failed |-> 0]]
    /\ start_ep = [p \in Callers |-> -1]
    /\ fetch_ep = [p \in Callers |-> -1]

(***************************************************************************)
(* Pure parts.                                                             *)
(***************************************************************************)
\* info.timestamp.elapsed(), in ticks
Elapsed(info) == now - info.timestamp
\* Duration::as_secs: whole seconds, the fraction dropped
AsSecs(d) == d \div TicksPerSec

\* faulty variant of IsFresh: `<` for `<=`
IsFreshStrict(info) == AsSecs(Elapsed(info)) < MAX_CACHE_TIME_SECS

\* the freshness test of get_base_currency_info (both checks)
IsFresh(info) == AsSecs(Elapsed(info)) <= MAX_CACHE_TIME_SECS

\* faulty variant of MergeRates: insert() for entry().or_insert(), the later
\* provider overwrites
MergeRatesLastWins(ff, xe) ==
    [c \in (DOMAIN ff) \cup (DOMAIN xe) |->
        IF c \in DOMAIN xe THEN xe[c] ELSE ff[c]]

\* the merge of fetch_currencies: result.entry(currency).or_insert(rate)
MergeRates(ff, xe) ==
    [c \in (DOMAIN ff) \cup (DOMAIN xe) |->
        IF c \in DOMAIN ff THEN ff[c] ELSE xe[c]]

\* ONE_USD_RATE: Some(1.0)
ONE_USD_RATE == Some(1)

\* faulty variant of get_currency_rate: no arm for "USD", every code is looked up
get_currency_rate_lookup(currency_info, currency_code) ==
    IF currency_code \in DOMAIN currency_info.currency_rates
    THEN Some(currency_info.currency_rates[currency_code])
    ELSE None

get_currency_rate(currency_info, currency_code) ==
    IF currency_code = "USD" THEN ONE_USD_RATE
    ELSE IF currency_code \in DOMAIN currency_info.currency_rates
         THEN Some(currency_info.currency_rates[currency_code])
         ELSE None

InvalidCurrency == "Invalid target or source currency"

\* convert_currency once get_base_currency_info has returned Ok(info)
ConvertWith(info, base, target) ==
    LET source_current_rate == get_currency_rate(info, base)
        target_current_rate == get_currency_rate(info, target)
    IN IF source_current_rate = None \/ target_current_rate = None
       THEN Err(InvalidCurrency)
       ELSE Ok([base_currency |-> base,
                target_currency |-> target,
                conversion_rate |->
                    F64CrossRate[source_current_rate[1]][target_current_rate[1]]])

\* a provider request's Result<CurrencyApiResponse>
ProviderResult(provider, reply) ==
    IF reply.kind = "send"
    THEN Err("Unable to fetch currency info from " \o provider)
    ELSE IF reply.kind = "decode" THEN Err("error decoding response body")
    ELSE Ok(reply.rates)

(***************************************************************************)
(* The clock.  It moves by one tick or by the whole cache time, MaxAdvance *)
(* times at most (ClockSteps counts the moves made, one tick at a time     *)
(* being fewer than TTLTicks).                                             *)
(***************************************************************************)
ClockSteps(t) == (t \div TTLTicks) + (t % TTLTicks)

Advance(d) ==
    /\ ClockSteps(now) < MaxAdvance
    /\ now' = now + d
    /\ UNCHANGED <<http, fetched_currencies, lock, pc, args, locals,
                   current_info, result, history>>

(***************************************************************************)
(* convert_currency(base, target), which starts with                       *)
(* get_base_currency_info (currency_convert.rs:81).  The tokio RwLock is   *)
(* fair: requests queue in order, and a request is served when it is first *)
(* in the queue and compatible with the guards held.                       *)
(***************************************************************************)
\* the slot is empty or holds a snapshot more than the cache time old, in
\* whole seconds
SlotExpired ==
    \/ fetched_currencies = None
    \/ AsSecs(Elapsed(fetched_currencies[1])) > MAX_CACHE_TIME_SECS

\* currency_convert.rs:76-81 and 112: the call, up to the read() request
ConvertCurrencyCall(p, base, target) ==
    /\ pc[p] = "idle"
    /\ calls < MaxCalls
    /\ calls' = calls + 1
    /\ pc' = [pc EXCEPT ![p] = "read_wait"]
    /\ waiters' = Append(waiters, p)
    /\ base_currency' = [base_currency EXCEPT ![p] = base]
    /\ target_currency' = [target_currency EXCEPT ![p] = target]
    /\ start_ep' = [start_ep EXCEPT ![p] = IF SlotExpired THEN stores ELSE -1]
    /\ UNCHANGED <<http, now, fetched_currencies, readers, writer, locals,
                   current_info, result, stores, ep_log, fetch_ep, many>>

\* currency_convert.rs:112: read().await completes
ReadLockAcquired(p) ==
    /\ pc[p] = "read_wait"
    /\ waiters # <<>> /\ Head(waiters) = p
    /\ writer = 0
    /\ readers' = readers \cup {p}
    /\ waiters' = Tail(waiters)
    /\ pc' = [pc EXCEPT ![p] = "read_held"]
    /\ UNCHANGED <<http, now, fetched_currencies, writer, args, locals,
                   current_info, result, history>>

\* get_base_currency_info returns r to convert_currency, which returns the
\* error (line 81, `?`) or the conversion (lines 84-100)
Return(p, r) ==
    /\ current_info' = [current_info EXCEPT ![p] = Some(r)]
    /\ result' = [result EXCEPT ![p] =
          Some(IF r.ok
               THEN ConvertWith(r.val, base_currency[p], target_currency[p])
               ELSE r)]
    /\ pc' = [pc EXCEPT ![p] = "done"]

\* faulty variant of FirstCheck: write() is requested with the read guard
\* still held
FirstCheckHoldingGuard(p) ==
    /\ pc[p] = "read_held"
    /\ IF fetched_currencies # None /\ IsFresh(fetched_currencies[1])
       THEN /\ Return(p, Ok(fetched_currencies[1]))
            /\ readers' = readers \ {p}
            /\ UNCHANGED waiters
       ELSE /\ pc' = [pc EXCEPT ![p] = "write_wait"]
            /\ waiters' = Append(waiters, p)
            /\ UNCHANGED <<readers, current_info, result>>
    /\ UNCHANGED <<http, now, fetched_currencies, writer, args, locals,
                   history>>

\* currency_convert.rs:113-124: the check under the read guard.  The guard
\* is dropped by the return, or by drop(guard), which the write() request
\* follows at once (no await lies between the two statements, and a request
\* queued by another caller in between is the same as one queued just
\* before the drop)
FirstCheck(p) ==
    /\ pc[p] = "read_held"
    /\ readers' = readers \ {p}
    /\ IF fetched_currencies # None /\ IsFresh(fetched_currencies[1])
       THEN /\ Return(p, Ok(fetched_currencies[1]))
            /\ UNCHANGED waiters
       ELSE /\ pc' = [pc EXCEPT ![p] = "write_wait"]
            /\ waiters' = Append(waiters, p)
            /\ UNCHANGED <<current_info, result>>
    /\ UNCHANGED <<http, now, fetched_currencies, writer, args, locals, history>>

\* faulty variant of WriteLockAcquired: the guard is handed out whatever
\* guards are held
WriteLockAcquiredShared(p) ==
    /\ pc[p] = "write_wait"
    /\ waiters # <<>> /\ Head(waiters) = p
    /\ writer' = p
    /\ waiters' = Tail(waiters)
    /\ pc' = [pc EXCEPT ![p] = "write_held"]
    /\ UNCHANGED <<http, now, fetched_currencies, readers, args, locals,
                   current_info, result, history>>

\* currency_convert.rs:124: write().await completes
WriteLockAcquired(p) ==
    /\ pc[p] = "write_wait"
    /\ waiters # <<>> /\ Head(waiters) = p
    /\ writer = 0 /\ readers = {}
    /\ writer' = p
    /\ waiters' = Tail(waiters)
    /\ pc' = [pc EXCEPT ![p] = "write_held"]
    /\ UNCHANGED <<http, now, fetched_currencies, readers, args, locals,
                   current_info, result, history>>

\* faulty variant of Recheck: no re-check, the fetch is invoked whatever the slot
\* holds by now
RecheckSkipped(p) ==
    /\ pc[p] = "write_held"
    /\ pc' = [pc EXCEPT ![p] = "fetch_ff"]
    /\ fetch_ep' = [fetch_ep EXCEPT ![p] = stores]
    /\ ep_log' = [ep_log EXCEPT ![stores].fetches = @ + 1]
    /\ UNCHANGED <<http, now, fetched_currencies, lock, args, locals, current_info,
                   result, calls, stores, start_ep>>

\* currency_convert.rs:125-132: the re-check under the write guard, then
\* fetch_currencies is called and sends the FastForex request
Recheck(p) ==
    /\ pc[p] = "write_held"
    /\ IF fetched_currencies # None /\ IsFresh(fetched_currencies[1])
       THEN /\ Return(p, Ok(fetched_currencies[1]))
            /\ writer' = 0
            /\ UNCHANGED <<fetch_ep, ep_log>>
       ELSE /\ pc' = [pc EXCEPT ![p] = "fetch_ff"]
            /\ fetch_ep' = [fetch_ep EXCEPT ![p] = stores]
            /\ ep_log' = [ep_log EXCEPT ![stores].fetches = @ + 1]
            /\ UNCHANGED <<writer, current_info, result>>
    /\ UNCHANGED <<http, now, fetched_currencies, readers, waiters, args, locals,
                   calls, stores, start_ep>>

\* faulty variant of FetchFailed: the failed refresh empties the slot
FetchFailedClearing(p, e) ==
    /\ Return(p, Err(e))
    /\ writer' = 0
    /\ ep_log' = [ep_log EXCEPT ![stores].failed = @ + 1]
    /\ fetched_currencies' = None
    /\ UNCHANGED stores

\* faulty variant of FetchFailed: the failed fetch is tried again within
\* the call
FetchFailedRetrying(p, e) ==
    /\ pc' = [pc EXCEPT ![p] = "fetch_ff"]
    /\ ep_log' = [ep_log EXCEPT ![stores].fetches = @ + 1,
                                ![stores].failed = @ + 1]
    /\ UNCHANGED <<fetched_currencies, writer, current_info, result, stores>>

\* fetch_currencies returns Err(e) (`?` at currency_api.rs:43 or 44) and so
\* does get_base_currency_info (`?` at currency_convert.rs:132), dropping
\* the write guard; line 133 is not reached
FetchFailed(p, e) ==
    /\ Return(p, Err(e))
    /\ writer' = 0
    /\ ep_log' = [ep_log EXCEPT ![stores].failed = @ + 1]
    /\ UNCHANGED <<fetched_currencies, stores>>

\* faulty variant of FastforexReply: a failed primary counts as an empty
\* reply, and the empty snapshot is stamped, stored and returned
FastforexReplyLenient(p, reply) ==
    /\ pc[p] = "fetch_ff"
    /\ LET r == ProviderResult("FastForex", reply)
           empty == [timestamp |-> now, currency_rates |-> <<>>]
       IN /\ fastforex_info' = [fastforex_info EXCEPT ![p] = Some(r)]
          /\ IF r.ok
             THEN /\ pc' = [pc EXCEPT ![p] = "fetch_xe"]
                  /\ UNCHANGED <<fetched_currencies, writer, current_info,
                                 result, stores, ep_log>>
             ELSE /\ fetched_currencies' = Some(empty)
                  /\ stores' = stores + 1
                  /\ Return(p, Ok(empty))
                  /\ writer' = 0
                  /\ UNCHANGED ep_log
    /\ UNCHANGED <<http, now, readers, waiters, args, xe_info, calls, start_ep,
                   fetch_ep>>

\* currency_api.rs:43, 57-70: the FastForex request ends
FastforexReply(p, reply) ==
    /\ pc[p] = "fetch_ff"
    /\ LET r == ProviderResult("FastForex", reply)
       IN /\ fastforex_info' = [fastforex_info EXCEPT ![p] = Some(r)]
          /\ IF r.ok
             THEN /\ pc' = [pc EXCEPT ![p] = "fetch_xe"]
                  /\ UNCHANGED <<fetched_currencies, writer, current_info,
                                 result, stores, ep_log>>
             ELSE FetchFailed(p, r.val)
    /\ UNCHANGED <<http, now, readers, waiters, args, xe_info, calls, start_ep,
                   fetch_ep>>

\* faulty variant of StoreFetched: the snapshot is stamped with the start
\* of the clock, not with Instant::now()
StoreFetchedUnstamped(p, rates) ==
    LET currency_info == [timestamp |-> 0, currency_rates |-> rates]
    IN /\ fetched_currencies' = Some(currency_info)
       /\ stores' = stores + 1
       /\ Return(p, Ok(currency_info))
       /\ writer' = 0
       /\ UNCHANGED ep_log

\* currency_api.rs:51-54 and currency_convert.rs:133-134: the snapshot is
\* stamped, stored in the slot and returned; the write guard is dropped
StoreFetched(p, rates) ==
    LET currency_info == [timestamp |-> now, currency_rates |-> rates]
    IN /\ fetched_currencies' = Some(currency_info)
       /\ stores' = stores + 1
       /\ Return(p, Ok(currency_info))
       /\ writer' = 0
       /\ UNCHANGED ep_log

\* currency_api.rs:44-55, 72-90: the XE request ends
XeReply(p, reply) ==
    /\ pc[p] = "fetch_xe"
    /\ LET r == ProviderResult("XE", reply)
       IN /\ xe_info' = [xe_info EXCEPT ![p] = Some(r)]
          /\ IF r.ok
             THEN StoreFetched(p, MergeRates(fastforex_info[p][1].val, r.val))
             ELSE FetchFailed(p, r.val)
    /\ UNCHANGED <<http, now, readers, waiters, args, fastforex_info, calls,
                   start_ep, fetch_ep>>

\* the request task ends with its call; another request gets a new task
NextRequest(p) ==
    /\ pc[p] = "done" /\ requested[p] = None
    /\ pc' = [pc EXCEPT ![p] = "idle"]
    /\ base_currency' = [base_currency EXCEPT ![p] = ""]
    /\ target_currency' = [target_currency EXCEPT ![p] = ""]
    /\ fastforex_info' = [fastforex_info EXCEPT ![p] = None]
    /\ xe_info' = [xe_info EXCEPT ![p] = None]
    /\ current_info' = [current_info EXCEPT ![p] = None]
    /\ result' = [result EXCEPT ![p] = None]
    /\ start_ep' = [start_ep EXCEPT ![p] = -1]
    /\ fetch_ep' = [fetch_ep EXCEPT ![p] = -1]
    /\ UNCHANGED <<http, now, fetched_currencies, lock, calls, stores, ep_log, many>>

(***************************************************************************)
(* convert_currencies(base, targets): one convert_currency per target, in  *)
(* order (currency_convert.rs:60-74).  No await lies between the return of *)
(* one convert_currency and the read() request of the next.                *)
(***************************************************************************)
\* lines 66-69 and 76-81, 112: the loop takes the next target and calls
\* convert_currency, up to the read() request; line 73 when none is left
LoopNext(p, targets, done) ==
    IF targets = <<>>
    THEN /\ many_result' = [many_result EXCEPT ![p] = Some(Ok(done))]
         /\ pc' = [pc EXCEPT ![p] = "many_done"]
         /\ target_currency' = [target_currency EXCEPT ![p] = ""]
         /\ UNCHANGED <<waiters, calls, started, start_ep>>
    ELSE /\ many_result' = [many_result EXCEPT ![p] = None]
         /\ pc' = [pc EXCEPT ![p] = "read_wait"]
         /\ waiters' = Append(waiters, p)
         /\ target_currency' = [target_currency EXCEPT ![p] = Head(targets)]
         /\ calls' = calls + 1
         /\ started' = [started EXCEPT ![p] = @ + 1]
         /\ start_ep' = [start_ep EXCEPT ![p] =
                             IF SlotExpired THEN stores ELSE -1]

\* lines 60-69: the call, up to the first read() request
ConvertCurrenciesCall(p, base, targets) ==
    /\ pc[p] = "idle"
    /\ calls + Len(targets) <= MaxCalls
    /\ base_currency' = [base_currency EXCEPT ![p] = base]
    /\ requested' = [requested EXCEPT ![p] = Some(targets)]
    /\ target_currencies' =
           [target_currencies EXCEPT ![p] =
               IF targets = <<>> THEN <<>> ELSE Tail(targets)]
    /\ results' = [results EXCEPT ![p] = <<>>]
    /\ used_infos' = [used_infos EXCEPT ![p] = <<>>]
    /\ LoopNext(p, targets, <<>>)
    /\ UNCHANGED <<http, now, fetched_currencies, readers, writer, locals,
                   current_info, result, stores, ep_log, fetch_ep>>

\* faulty variant of ConvertCurrenciesLoop: a failed conversion is left out
\* and the loop goes on
ConvertCurrenciesLoopSkipping(p) ==
    /\ pc[p] = "done" /\ requested[p] # None
    /\ results' = [results EXCEPT ![p] =
                       IF result[p][1].ok
                       THEN Append(@, result[p][1].val) ELSE @]
    /\ used_infos' = [used_infos EXCEPT ![p] =
                          IF result[p][1].ok
                          THEN Append(@, current_info[p][1].val) ELSE @]
    /\ target_currencies' =
           [target_currencies EXCEPT ![p] = IF @ = <<>> THEN <<>> ELSE Tail(@)]
    /\ LoopNext(p, target_currencies[p], results'[p])
    /\ fastforex_info' = [fastforex_info EXCEPT ![p] = None]
    /\ xe_info' = [xe_info EXCEPT ![p] = None]
    /\ current_info' = [current_info EXCEPT ![p] = None]
    /\ result' = [result EXCEPT ![p] = None]
    /\ fetch_ep' = [fetch_ep EXCEPT ![p] = -1]
    /\ UNCHANGED <<http, now, fetched_currencies, readers, writer, base_currency,
                   requested, stores, ep_log>>

\* lines 67-73: convert_currency has returned.  An error is returned at once
\* (`?` at line 69); a result is pushed and the loop goes on
ConvertCurrenciesLoop(p) ==
    /\ pc[p] = "done" /\ requested[p] # None
    /\ IF result[p][1].ok
       THEN /\ results' = [results EXCEPT ![p] = Append(@, result[p][1].val)]
            /\ used_infos' = [used_infos EXCEPT ![p] = Append(@, current_info[p][1].val)]
            /\ target_currencies' =
                   [target_currencies EXCEPT ![p] =
                       IF @ = <<>> THEN <<>> ELSE Tail(@)]
            /\ LoopNext(p, target_currencies[p],
                        Append(results[p], result[p][1].val))
            /\ fastforex_info' = [fastforex_info EXCEPT ![p] = None]
            /\ xe_info' = [xe_info EXCEPT ![p] = None]
            /\ current_info' = [current_info EXCEPT ![p] = None]
            /\ result' = [result EXCEPT ![p] = None]
            /\ fetch_ep' = [fetch_ep EXCEPT ![p] = -1]
       ELSE /\ many_result' = [many_result EXCEPT ![p] = Some(result[p][1])]
            /\ pc' = [pc EXCEPT ![p] = "many_done"]
            /\ UNCHANGED <<waiters, calls, started, start_ep, results,
                           used_infos, target_currencies, target_currency,
                           locals, current_info, result, fetch_ep>>
    /\ UNCHANGED <<http, now, fetched_currencies, readers, writer, base_currency,
                   requested, stores, ep_log>>

Next ==
    \/ \E d \in {1, TTLTicks} : Advance(d)
    \/ \E p \in Callers, a \in CallArgs : ConvertCurrencyCall(p, a[1], a[2])
    \/ \E p \in Callers : ReadLockAcquired(p)
    \/ \E p \in Callers : FirstCheck(p)
    \/ \E p \in Callers : WriteLockAcquired(p)
    \/ \E p \in Callers : Recheck(p)
    \/ \E p \in Callers, r \in FastForexReplies : FastforexReply(p, r)
    \/ \E p \in Callers, r \in XeReplies : XeReply(p, r)
    \/ \E p \in Callers : NextRequest(p)

Spec == Init /\ [][Next]_vars

\* The runtime polls every task that can go on, the lock serves its queue
\* in order, and every provider request ends: the client's request and
\* connect timeouts are 15 s (currency_api.rs:29-32).
Fairness ==
    \A p \in Callers :
        /\ WF_vars(ReadLockAcquired(p))
        /\ WF_vars(FirstCheck(p))
        /\ WF_vars(WriteLockAcquired(p))
        /\ WF_vars(Recheck(p))
        /\ WF_vars(\E r \in FastForexReplies : FastforexReply(p, r))
        /\ WF_vars(\E r \in XeReplies : XeReply(p, r))

\* Every request task makes one call (a task's later call enters the lock's
\* queue as another task's call does).
NextOnce ==
    \/ \E d \in {1, TTLTicks} : Advance(d)
    \/ \E p \in Callers, a \in CallArgs : ConvertCurrencyCall(p, a[1], a[2])
    \/ \E p \in Callers : ReadLockAcquired(p)
    \/ \E p \in Callers : FirstCheck(p)
    \/ \E p \in Callers : WriteLockAcquired(p)
    \/ \E p \in Callers : Recheck(p)
    \/ \E p \in Callers, r \in FastForexReplies : FastforexReply(p, r)
    \/ \E p \in Callers, r \in XeReplies : XeReply(p, r)

SpecFair == Init /\ [][NextOnce]_vars /\ Fairness

(***************************************************************************)
(* The same operations for one caller, with every argument pair and every  *)
(* provider reply over WideRates, and the clock standing still.            *)
(***************************************************************************)
NextWide ==
    \/ \E a \in WideArgs : ConvertCurrencyCall(1, a[1], a[2])
    \/ ReadLockAcquired(1)
    \/ FirstCheck(1)
    \/ WriteLockAcquired(1)
    \/ Recheck(1)
    \/ \E r \in WideReplies : FastforexReply(1, r)
    \/ \E r \in WideReplies : XeReply(1, r)

SpecWide == Init /\ [][NextWide]_vars

(***************************************************************************)
(* The HTTP layer of main.rs: three routes over get_currency_info, which   *)
(* keeps one response per base currency in a moka cache with a time to     *)
(* live of five minutes.                                                   *)
(***************************************************************************)
\* main.rs:130-151: at most three targets, those whose uppercase spelling
\* has a rate in the response and a name in the supported table, with rate
TargetsOf(response, targets) ==
    LET first == SubSeq(targets, 1, IF Len(targets) < 3 THEN Len(targets) ELSE 3)
        known == SelectSeq(first,
                     LAMBDA t : /\ to_uppercase(t) \in DOMAIN response.rates
                                /\ to_uppercase(t) \in currency_names)
    IN [i \in 1..Len(known) |->
            <<response.rates[to_uppercase(known[i])], to_uppercase(known[i])>>]

\* main.rs:107-176: the response of the two status routes
convert_currency_info_to(currency, targets, info) ==
    IF info = None
    THEN [status |-> StatusOK, body |-> "No info for currency available"]
    ELSE IF TargetsOf(info[1], targets) = <<>>
    THEN [status |-> StatusOK,
          body |-> "No supported currency given to convert to"]
    ELSE [status |-> StatusOK,
          body |-> [updated |-> info[1].updated,
                    requested |-> to_uppercase(currency),
                    targets |-> TargetsOf(info[1], targets)]]

\* main.rs:178-192: the response of the convert route
handle_currency_convert_request(info) ==
    IF info = None
    THEN [status |-> StatusNoContent,
          body |-> "No info for currency available"]
    ELSE [status |-> StatusOK, body |-> info[1]]

\* get_currency_info returns info to its handler, which answers
HttpRespond(h, handler, currency, targets, info) ==
    /\ http_info' = [http_info EXCEPT ![h] = info]
    /\ http_response' =
           [http_response EXCEPT ![h] =
               Some(IF handler = "convert"
                    THEN handle_currency_convert_request(info)
                    ELSE convert_currency_info_to(currency, targets, info))]
    /\ http_pc' = [http_pc EXCEPT ![h] = "responded"]

\* faulty variant of HttpRequest: no look at the supported table, every
\* code goes to the cache
HttpRequestUnchecked(h, handler, currency, targets) ==
    /\ http_pc[h] = "idle"
    /\ http_calls < MaxCalls
    /\ http_calls' = http_calls + 1
    /\ http_handler' = [http_handler EXCEPT ![h] = handler]
    /\ http_currency' = [http_currency EXCEPT ![h] = currency]
    /\ http_targets' = [http_targets EXCEPT ![h] = targets]
    /\ http_pc' = [http_pc EXCEPT ![h] = "cache_get"]
    /\ UNCHANGED <<http_info, http_response, currency_info_cache, cache_reads,
                   api_fetches, core>>

\* main.rs:75-120, 178-184, 194-210: a request comes in; get_currency_info
\* uppercases the code and looks it up in the supported table, then asks
\* the cache
HttpRequest(h, handler, currency, targets) ==
    /\ http_pc[h] = "idle"
    /\ http_calls < MaxCalls
    /\ http_calls' = http_calls + 1
    /\ http_handler' = [http_handler EXCEPT ![h] = handler]
    /\ http_currency' = [http_currency EXCEPT ![h] = currency]
    /\ http_targets' = [http_targets EXCEPT ![h] = targets]
    /\ IF to_uppercase(currency) \notin currency_names
       THEN HttpRespond(h, handler, currency, targets, None)
       ELSE /\ http_pc' = [http_pc EXCEPT ![h] = "cache_get"]
            /\ UNCHANGED <<http_info, http_response>>
    /\ UNCHANGED <<currency_info_cache, cache_reads, api_fetches, core>>

\* main.rs:210-218: the cache answers; a cached response is returned, else
\* fetch_currency_info is called
CacheGet(h) ==
    /\ http_pc[h] = "cache_get"
    /\ cache_reads' = [cache_reads EXCEPT ![h] = @ + 1]
    /\ LET cached_info == currency_info_cache[to_uppercase(http_currency[h])]
       IN IF cached_info # None
          THEN /\ HttpRespond(h, http_handler[h], http_currency[h],
                              http_targets[h], cached_info)
               /\ UNCHANGED api_fetches
          ELSE /\ http_pc' = [http_pc EXCEPT ![h] = "fetch"]
               /\ api_fetches' = [api_fetches EXCEPT ![h] = @ + 1]
               /\ UNCHANGED <<http_info, http_response>>
    /\ UNCHANGED <<currency_info_cache, http_handler, http_currency,
                   http_targets, http_calls, core>>

\* main.rs:216-227: fetch_currency_info ends; a response is inserted in the
\* cache and returned, an error is dropped and None returned
FetchCurrencyInfoReply(h, reply) ==
    /\ http_pc[h] = "fetch"
    /\ IF reply.ok
       THEN /\ currency_info_cache' =
                   [currency_info_cache EXCEPT
                       ![to_uppercase(http_currency[h])] = Some(reply.val)]
            /\ HttpRespond(h, http_handler[h], http_currency[h],
                           http_targets[h], Some(reply.val))
       ELSE /\ HttpRespond(h, http_handler[h], http_currency[h],
                           http_targets[h], None)
            /\ UNCHANGED currency_info_cache
    /\ UNCHANGED <<http_handler, http_currency, http_targets, http_calls,
                   cache_reads, api_fetches, core>>

\* main.rs:28: the entry of key k has lived its five minutes
TimeToLiveExpired(k) ==
    /\ currency_info_cache[k] # None
    /\ currency_info_cache' = [currency_info_cache EXCEPT ![k] = None]
    /\ UNCHANGED <<http_pc, http_handler, http_currency, http_targets,
                   http_info, http_response, http_calls, cache_reads,
                   api_fetches, core>>

\* the request is over; the next one starts afresh
HttpNextRequest(h) ==
    /\ http_pc[h] = "responded"
    /\ http_pc' = [http_pc EXCEPT ![h] = "idle"]
    /\ http_handler' = [http_handler EXCEPT ![h] = ""]
    /\ http_currency' = [http_currency EXCEPT ![h] = ""]
    /\ http_targets' = [http_targets EXCEPT ![h] = <<>>]
    /\ http_info' = [http_info EXCEPT ![h] = None]
    /\ http_response' = [http_response EXCEPT ![h] = None]
    /\ cache_reads' = [cache_reads EXCEPT ![h] = 0]
    /\ api_fetches' = [api_fetches EXCEPT ![h] = 0]
    /\ UNCHANGED <<currency_info_cache, http_calls, core>>

NextHttp ==
    \/ \E h \in Callers, c \in HttpCodes :
           HttpRequest(h, "status", c, <<"EUR", "USD">>)
    \/ \E h \in Callers, c \in HttpCodes, t \in HttpTargets :
           HttpRequest(h, "status_convert", c, t)
    \/ \E h \in Callers, c \in HttpCodes : HttpRequest(h, "convert", c, <<>>)
    \/ \E h \in Callers : CacheGet(h)
    \/ \E h \in Callers, r \in ApiReplies : FetchCurrencyInfoReply(h, r)
    \/ \E k \in HttpKeys : TimeToLiveExpired(k)
    \/ \E h \in Callers : HttpNextRequest(h)

SpecHttp == Init /\ [][NextHttp]_vars

(***************************************************************************)
(* convert_currencies by caller 1 while the clock moves and the other      *)
(* callers make single conversions.                                        *)
(***************************************************************************)
NextMany ==
    \/ \E d \in {1, TTLTicks} : Advance(d)
    \/ \E t \in ManyTargets : ConvertCurrenciesCall(1, "EUR", t)
    \/ ConvertCurrenciesLoop(1)
    \/ \E p \in Callers \ {1}, a \in CallArgs :
           ConvertCurrencyCall(p, a[1], a[2])
    \/ \E p \in Callers : ReadLockAcquired(p)
    \/ \E p \in Callers : FirstCheck(p)
    \/ \E p \in Callers : WriteLockAcquired(p)
    \/ \E p \in Callers : Recheck(p)
    \/ \E p \in Callers, r \in FastForexReplies : FastforexReply(p, r)
    \/ \E p \in Callers, r \in XeReplies : XeReply(p, r)

SpecMany == Init /\ [][NextMany]_vars

(***************************************************************************)
(* Properties.                                                             *)
(***************************************************************************)
Done(p) == pc[p] = "done"
\* get_base_currency_info returned a snapshot to caller p / an error
GotInfo(p) == current_info[p] # None /\ current_info[p][1].ok
InfoFailed(p) == current_info[p] # None /\ ~current_info[p][1].ok
InfoOf(p) == current_info[p][1].val
Fetching(p) == pc[p] \in {"fetch_ff", "fetch_xe"}
\* the callers that started in episode e while the slot was empty or expired
StartedIn(e) == {p \in Callers : start_ep[p] = e}
\* whole seconds between the fetch times of two snapshots
SecsApart(i, j) ==
    IF i.timestamp >= j.timestamp
    THEN (i.timestamp - j.timestamp) \div TicksPerSec
    ELSE (j.timestamp - i.timestamp) \div TicksPerSec

\* C1 as stated: the callers that all started while the slot was empty or
\* expired (the same episode) have, once all have returned, caused exactly
\* one upstream fetch in that episode and all hold the same snapshot.
C1_OneFetchPerEpisode ==
    \A e \in Episodes :
        (StartedIn(e) # {} /\ \A p \in StartedIn(e) : Done(p))
        => /\ ep_log[e].fetches = 1
           /\ \A p, q \in StartedIn(e) :
                  GotInfo(p) /\ current_info[p] = current_info[q]

\* C1 amended: a fetch is in flight only while the slot is empty or expired;
\* of the fetches invoked in one episode at most one does not fail; if none
\* failed and the fetched snapshot is still fresh, exactly one fetch was
\* invoked and every caller of the episode that has returned holds that
\* snapshot; two different snapshots returned to callers were fetched more
\* than the cache time apart.
C1_OneSuccessfulFetchPerEpisode ==
    /\ \A p \in Callers :
           Fetching(p) =>
               \/ fetched_currencies = None
               \/ (now - fetched_currencies[1].timestamp) \div TicksPerSec
                      > MAX_CACHE_TIME_SECS
    /\ \A e \in Episodes : ep_log[e].fetches - ep_log[e].failed <= 1
    /\ \A e \in Episodes :
           ( /\ StartedIn(e) # {}
             /\ \A p \in StartedIn(e) : Done(p)
             /\ ep_log[e].failed = 0
             /\ stores = e + 1
             /\ ~SlotExpired )
           => /\ ep_log[e].fetches = 1
              /\ \A p \in StartedIn(e) :
                     current_info[p] = Some(Ok(fetched_currencies[1]))
    /\ \A p, q \in Callers :
           (GotInfo(p) /\ GotInfo(q) /\ InfoOf(p) # InfoOf(q))
           => SecsApart(InfoOf(p), InfoOf(q)) > MAX_CACHE_TIME_SECS

\* witness of C1: two callers started on the empty slot, one of them
\* fetched, and both returned the snapshot it stored
C1_Witness ==
    \E p, q \in Callers :
        /\ p # q /\ start_ep[p] = 0 /\ start_ep[q] = 0
        /\ Done(p) /\ Done(q)
        /\ fetch_ep[p] = 0 /\ fetch_ep[q] = -1
        /\ GotInfo(p) /\ current_info[q] = current_info[p]

\* C2: a first check that finds a snapshot with now - fetchedAt <= TTL
\* returns a copy of exactly that snapshot at once: no fetch is invoked,
\* the write guard is neither requested nor taken, the slot stays as it is.
C2_FreshIsServed ==
    [][\A p \in Callers :
          ( /\ pc[p] = "read_held" /\ pc'[p] # "read_held"
            /\ fetched_currencies # None
            /\ now - fetched_currencies[1].timestamp <= TTLTicks )
          => /\ pc'[p] = "done"
             /\ current_info'[p] = Some(Ok(fetched_currencies[1]))
             /\ fetch_ep'[p] = -1
             /\ writer' = writer /\ waiters' = waiters
             /\ fetched_currencies' = fetched_currencies]_vars

\* witness of C2: a caller that started on a fresh slot was served the
\* cached snapshot (fetched by another caller) while it was still fresh
C2_Witness ==
    \E p \in Callers :
        /\ Done(p) /\ GotInfo(p) /\ fetch_ep[p] = -1 /\ start_ep[p] = -1
        /\ fetched_currencies = Some(InfoOf(p))
        /\ now - InfoOf(p).timestamp = TTLTicks

\* a fetch failed in the current episode: no snapshot was stored since
FailedSinceStore == ep_log[stores].failed > 0

\* C3: a failing fetch leaves the slot exactly as it was and the caller
\* gets the error; after it every caller's check sends the caller on to the
\* write guard and every re-check invokes the fetch again.
C3_FailureKeepsSlot ==
    [][/\ \A p \in Callers :
             (Fetching(p) /\ pc'[p] = "done" /\ ~current_info'[p][1].ok)
             => /\ fetched_currencies' = fetched_currencies
                /\ result'[p] = current_info'[p]
       /\ \A q \in Callers :
             (FailedSinceStore /\ pc[q] = "read_held" /\ pc'[q] # pc[q])
             => pc'[q] = "write_wait"
       /\ \A q \in Callers :
             (FailedSinceStore /\ pc[q] = "write_held" /\ pc'[q] # pc[q])
             => pc'[q] = "fetch_ff" /\ fetch_ep'[q] = stores]_vars

\* witness of C3: the refresh of an expired snapshot failed, the snapshot
\* is still in the slot, and the next caller is fetching again
C3_Witness ==
    \E p, q \in Callers :
        /\ InfoFailed(p) /\ fetch_ep[p] = 1 /\ stores = 1
        /\ fetched_currencies # None
        /\ q # p /\ Fetching(q) /\ fetch_ep[q] = 1

\* C4 as stated: when the primary provider answered and the secondary
\* failed, fetch_currencies succeeds with exactly the primary's rates.
C4_SecondaryFailureTolerated ==
    \A p \in Callers :
        ( /\ fastforex_info[p] # None /\ fastforex_info[p][1].ok
          /\ xe_info[p] # None /\ ~xe_info[p][1].ok )
        => /\ GotInfo(p)
           /\ InfoOf(p).currency_rates = fastforex_info[p][1].val

\* a code in no validity table and in no snapshot
UnknownCode(c) ==
    /\ c # "" /\ to_uppercase(c) \notin currency_names
    /\ fetched_currencies # None
           => to_uppercase(c) \notin DOMAIN fetched_currencies[1].currency_rates

\* C5 as stated: a conversion naming an unknown code invokes no fetch and
\* returns the unknown-currency error, whatever the state of the cache.
C5_UnknownCodeNoFetch ==
    \A p \in Callers :
        (UnknownCode(base_currency[p]) \/ UnknownCode(target_currency[p]))
        => /\ fetch_ep[p] = -1
           /\ Done(p) => result[p] = Some(Err(InvalidCurrency))

\* both providers answered caller p's fetch
BothAnswered(p) ==
    /\ fastforex_info[p] # None /\ fastforex_info[p][1].ok
    /\ xe_info[p] # None /\ xe_info[p][1].ok

\* C6: the fetched snapshot's codes are the union of the two providers'
\* codes; every code FastForex supplies has FastForex's value, every other
\* code has XE's.
C6_MergeFirstWins ==
    \A p \in Callers :
        BothAnswered(p) =>
            /\ GotInfo(p)
            /\ LET merged == InfoOf(p).currency_rates
                   ff == fastforex_info[p][1].val
                   xe == xe_info[p][1].val
               IN /\ DOMAIN merged = (DOMAIN ff) \cup (DOMAIN xe)
                  /\ \A c \in DOMAIN ff : merged[c] = ff[c]
                  /\ \A c \in (DOMAIN xe) \ (DOMAIN ff) : merged[c] = xe[c]

\* witness of C6: the providers disagree on one code and XE alone supplies
\* another
C6_Witness ==
    \E p \in Callers :
        /\ BothAnswered(p) /\ Done(p)
        /\ LET ff == fastforex_info[p][1].val
               xe == xe_info[p][1].val
           IN /\ \E c \in (DOMAIN ff) \cap (DOMAIN xe) : ff[c] # xe[c]
              /\ (DOMAIN xe) \ (DOMAIN ff) # {}
              /\ (DOMAIN ff) \ (DOMAIN xe) # {}

\* C7: when the FastForex request fails, the call returns the error at
\* once: XE is not asked, nothing is stored in the slot.
C7_PrimaryFailureFails ==
    [][\A p \in Callers :
          ( /\ pc[p] = "fetch_ff" /\ fastforex_info'[p] # None
            /\ ~fastforex_info'[p][1].ok )
          => /\ pc'[p] = "done"
             /\ current_info'[p] = Some(Err(fastforex_info'[p][1].val))
             /\ result'[p] = current_info'[p]
             /\ xe_info'[p] = None
             /\ fetched_currencies' = fetched_currencies
             /\ stores' = stores]_vars

\* witness of C7: FastForex failed for a caller that found the slot empty
C7_Witness ==
    \E p \in Callers :
        /\ fastforex_info[p] # None /\ ~fastforex_info[p][1].ok
        /\ Done(p) /\ InfoFailed(p) /\ fetched_currencies = None

\* C8 as stated: a check (the first or the re-check) serves the cached
\* snapshot only if now - fetchedAt <= TTL.
C8_OnlyFreshIsServed ==
    [][\A p \in Callers :
          (pc[p] \in {"read_held", "write_held"} /\ pc'[p] = "done")
          => now - fetched_currencies[1].timestamp <= TTLTicks]_vars

\* the snapshot resolves code c
Supported(info, c) == c = "USD" \/ c \in DOMAIN info.currency_rates

\* C9 as stated: converting a supported code to itself succeeds with a
\* conversion rate of exactly 1.0.
C9_ReflexiveRateIsOne ==
    \A p \in Callers :
        ( /\ Done(p) /\ GotInfo(p)
          /\ base_currency[p] = target_currency[p]
          /\ Supported(InfoOf(p), base_currency[p]) )
        => /\ result[p][1].ok
           /\ result[p][1].val.conversion_rate = F64One

\* the rate of a code that the snapshot resolves, as C10 states it
RateOf(info, c) == IF c = "USD" THEN 1 ELSE info.currency_rates[c]

\* C10: when both codes resolve, the conversion succeeds with the rate
\* (1 / rateOf(base)) * rateOf(target), rateOf(USD) being 1.0 whatever the
\* snapshot holds for USD.
C10_CrossRate ==
    \A p \in Callers :
        ( /\ Done(p) /\ GotInfo(p)
          /\ Supported(InfoOf(p), base_currency[p])
          /\ Supported(InfoOf(p), target_currency[p]) )
        => /\ result[p][1].ok
           /\ result[p][1].val =
                  [base_currency |-> base_currency[p],
                   target_currency |-> target_currency[p],
                   conversion_rate |->
                       F64MulNat(F64Recip(RateOf(InfoOf(p), base_currency[p])),
                                 RateOf(InfoOf(p), target_currency[p]))]

\* witness of C10: a conversion from USD while the snapshot holds another
\* rate for USD, to a code whose rate is neither 0 nor 1
C10_Witness ==
    \E p \in Callers :
        /\ Done(p) /\ GotInfo(p) /\ result[p][1].ok
        /\ base_currency[p] = "USD"
        /\ "USD" \in DOMAIN InfoOf(p).currency_rates
        /\ InfoOf(p).currency_rates["USD"] = 2
        /\ target_currency[p] = "EUR"
        /\ InfoOf(p).currency_rates["EUR"] = 49

\* two results of convert_currency with the same outcome: the same rate, or
\* the same error
SameOutcome(r1, r2) ==
    /\ r1.ok = r2.ok
    /\ IF r1.ok
       THEN r1.val.conversion_rate = r2.val.conversion_rate
       ELSE r1.val = r2.val

\* C11 as stated: a conversion has the outcome that the conversion of the
\* uppercase spellings of its two codes has on the same snapshot ("usd"
\* resolves as the anchor does).
C11_CaseInsensitive ==
    \A p \in Callers :
        (Done(p) /\ GotInfo(p))
        => SameOutcome(result[p][1],
                       ConvertWith(InfoOf(p), to_uppercase(base_currency[p]),
                                   to_uppercase(target_currency[p])))

\* convert_currencies has returned to caller p
ManyDone(p) == many_result[p] # None

\* C12: convert_currencies converts the targets in order, one
\* convert_currency each; when all succeed it returns one result per target
\* in the order of the targets; when the conversion of target i fails it
\* returns that error, no results, and has called convert_currency (and so
\* the snapshot lookup) for no target after i.
C12_ConvertManyInOrder ==
    \A p \in Callers :
        requested[p] # None =>
            LET targets == requested[p][1]
            IN /\ started[p] <= Len(targets)
               /\ Len(results[p]) <= started[p]
               /\ Len(used_infos[p]) = Len(results[p])
               /\ \A i \in 1..Len(results[p]) :
                      Ok(results[p][i]) =
                          ConvertWith(used_infos[p][i], base_currency[p],
                                      targets[i])
               /\ (ManyDone(p) /\ many_result[p][1].ok)
                      => /\ many_result[p][1].val = results[p]
                         /\ Len(results[p]) = Len(targets)
                         /\ started[p] = Len(targets)
               /\ (ManyDone(p) /\ ~many_result[p][1].ok)
                      => /\ started[p] = Len(results[p]) + 1
                         /\ target_currency[p] = targets[started[p]]
                         /\ many_result[p] = result[p]

\* witness of C12: of two targets the first did not resolve; the call
\* returned the error after one conversion
C12_Witness ==
    \E p \in Callers :
        /\ requested[p] = Some(<<"ZZZ", "USD">>)
        /\ ManyDone(p) /\ many_result[p] = Some(Err(InvalidCurrency))
        /\ started[p] = 1 /\ results[p] = <<>>

\* C19 as stated: the results of one successful convert_currencies call
\* are all computed from one snapshot.
C19_OneSnapshotPerBatch ==
    \A p \in Callers :
        (ManyDone(p) /\ many_result[p][1].ok)
        => \A i, j \in 1..Len(used_infos[p]) :
               used_infos[p][i] = used_infos[p][j]

\* request h was answered
Responded(h) == http_pc[h] = "responded"
\* the base currency of request h is not in the supported-currency table
Unsupported(h) == to_uppercase(http_currency[h]) \notin currency_names

\* C13 as stated: a request for an unsupported base currency is answered
\* with a client-error status.
C13_UnsupportedIsClientError ==
    \A h \in Callers :
        (Responded(h) /\ Unsupported(h))
        => http_response[h][1].status \in ClientErrors

\* C20: get_currency_info returns None for a code that is not in the
\* supported table without a read of the cache and without a fetch; a
\* fetch that fails returns None and leaves the cache as it was.
C20_UnsupportedTouchesNothing ==
    [][\A h \in Callers :
          /\ (http_pc[h] = "idle" /\ http_pc'[h] # "idle"
                  /\ to_uppercase(http_currency'[h]) \notin currency_names)
             => /\ http_pc'[h] = "responded"
                /\ http_info'[h] = None
                /\ cache_reads'[h] = 0 /\ api_fetches'[h] = 0
                /\ currency_info_cache' = currency_info_cache
          /\ (http_pc[h] = "fetch" /\ http_pc'[h] = "responded"
                  /\ http_info'[h] = None)
             => currency_info_cache' = currency_info_cache]_vars

\* witness of C20: one request named an unsupported code and was answered
\* with no info; another's fetch failed, and the cache holds nothing
C20_Witness ==
    \E h, g \in Callers :
        /\ Responded(h) /\ Unsupported(h) /\ http_info[h] = None
        /\ cache_reads[h] = 0 /\ api_fetches[h] = 0
        /\ Responded(g) /\ ~Unsupported(g) /\ api_fetches[g] = 1
        /\ http_info[g] = None
        /\ \A k \in HttpKeys : currency_info_cache[k] = None

\* caller p is between write().await and its return: lines 125-134
UnderWriteGuard(p) == pc[p] \in {"write_held", "fetch_ff", "fetch_xe"}

\* C14: at most one fetch is in flight; from the re-check to the store the
\* caller holds the write guard, and meanwhile no other caller holds a
\* guard, checks the slot or fetches; the first check is made under a read
\* guard, with no write guard held.
C14_OneFetchInFlight ==
    /\ Cardinality({p \in Callers : Fetching(p)}) <= 1
    /\ \A p \in Callers :
           UnderWriteGuard(p)
           => /\ writer = p /\ readers = {}
              /\ \A q \in Callers \ {p} :
                     pc[q] \notin {"read_held", "write_held", "fetch_ff",
                                   "fetch_xe"}
    /\ \A p \in Callers :
           pc[p] = "read_held" => (p \in readers /\ writer = 0)
    /\ writer # 0 => UnderWriteGuard(writer)

\* witness of C14: one caller is fetching while another waits for the lock
C14_Witness ==
    \E p, q \in Callers :
        /\ Fetching(p) /\ writer = p
        /\ pc[q] \in {"read_wait", "write_wait"}
        /\ waiters # <<>> /\ Head(waiters) = q

\* caller p is inside get_base_currency_info
InCall(p) == pc[p] \notin {"idle", "done", "many_done"}

\* C15: every call of get_base_currency_info returns, whatever the other
\* callers do.
C15_EveryCallReturns == \A p \in Callers : InCall(p) ~> Done(p)

\* witness of C15: a caller that had to wait for the write guard behind
\* another caller's failed fetch has fetched and returned
C15_Witness ==
    \E p, q \in Callers :
        /\ p # q /\ Done(p) /\ Done(q)
        /\ InfoFailed(q) /\ fetch_ep[q] = 0
        /\ GotInfo(p) /\ fetch_ep[p] = 0 /\ start_ep[p] = 0

\* C16: a slot that holds a snapshot never becomes empty; the slot changes
\* only when the caller that holds the write guard and is fetching returns
\* the snapshot it fetched, and then the slot was empty or its snapshot
\* older than the TTL, the new snapshot is stamped with the present time
\* and its fetchedAt is not earlier than that of the one it replaces.
C16_SlotLifecycle ==
    [][/\ fetched_currencies # None => fetched_currencies' # None
       /\ fetched_currencies' # fetched_currencies
          => /\ \E p \in Callers :
                    /\ Fetching(p) /\ writer = p /\ pc'[p] = "done"
                    /\ current_info'[p] = Some(Ok(fetched_currencies'[1]))
             /\ fetched_currencies'[1].timestamp = now
             /\ fetched_currencies # None
                => /\ now - fetched_currencies[1].timestamp > TTLTicks
                   /\ fetched_currencies'[1].timestamp
                          >= fetched_currencies[1].timestamp]_vars

\* witness of C16: a second snapshot has replaced the first, which had
\* gone stale
C16_Witness ==
    /\ stores = 2
    /\ fetched_currencies # None
    /\ fetched_currencies[1].timestamp > TTLTicks

\* fetch_currencies is invoked in this step
FetchInvoked ==
    \E e \in Episodes : ep_log'[e].fetches # ep_log[e].fetches

\* C17: fetch_currencies is invoked only by a call that has not invoked it
\* before, once; a fetching call goes on to the second provider or
\* returns, and a call that has returned does nothing until the next call.
C17_NoInternalRetry ==
    [][/\ FetchInvoked
          => /\ \E p \in Callers :
                    /\ pc[p] = "write_held" /\ pc'[p] = "fetch_ff"
                    /\ fetch_ep[p] = -1 /\ fetch_ep'[p] # -1
             /\ \A e \in Episodes :
                    ep_log'[e].fetches <= ep_log[e].fetches + 1
       /\ \A p \in Callers :
             /\ (pc[p] = "fetch_ff" /\ pc'[p] # pc[p])
                => pc'[p] \in {"fetch_xe", "done"}
             /\ (pc[p] = "fetch_xe" /\ pc'[p] # pc[p]) => pc'[p] = "done"
             /\ (Fetching(p) /\ pc'[p] = "done") => fetch_ep'[p] = fetch_ep[p]
             /\ (pc[p] = "done" /\ pc'[p] # pc[p])
                => pc'[p] = "idle"]_vars

\* witness of C17: a call's only fetch failed and the call returned the
\* error; nothing was fetched after it
C17_Witness ==
    \E p \in Callers :
        /\ Done(p) /\ InfoFailed(p) /\ fetch_ep[p] = 1
        /\ ep_log[1].fetches = 1 /\ ep_log[1].failed = 1

\* get_base_currency_info returns a snapshot to caller p in this step
ReturnsInfo(p) == InCall(p) /\ pc'[p] = "done" /\ current_info'[p][1].ok

\* the snapshot returned in this step is the slot's and was returned by one
\* of the two checks, or was fetched by this call and stamped now
CheckedOrFetched(p) ==
    LET info == current_info'[p][1].val
    IN \/ /\ pc[p] \in {"read_held", "write_held"}
          /\ fetched_currencies = Some(info)
       \/ /\ pc[p] = "fetch_xe" /\ fetch_ep[p] # -1
          /\ info.timestamp = now

\* a refresh that fails gives its caller the error, whatever the slot holds
FailedRefreshIsError(p) ==
    (Fetching(p) /\ pc'[p] = "done" /\ stores' = stores)
    => ~current_info'[p][1].ok

\* the parts of C18 other than the age of what is returned: they hold
ReturnedIsCheckedOrFetched ==
    [][\A p \in Callers :
          /\ ReturnsInfo(p) => CheckedOrFetched(p)
          /\ FailedRefreshIsError(p)]_vars

\* C18 as stated: a snapshot that get_base_currency_info returns is not
\* expired (its age is at most the TTL) and was returned by a check of that
\* call or fetched by that call; a failed refresh returns the error.
C18_NeverReturnsExpired ==
    [][\A p \in Callers :
          /\ ReturnsInfo(p)
             => /\ now - current_info'[p][1].val.timestamp <= TTLTicks
                /\ CheckedOrFetched(p)
          /\ FailedRefreshIsError(p)]_vars

====
